---- MODULE Spec2Model ----
(***************************************************************************)
(* Model of pdf-extractor.py: the paragraph-greedy chunk splitter          *)
(* (split_text_into_chunks), the page range parser (parse_page_range) and  *)
(* the extraction loop (extract_data_with_openai).                         *)
(*                                                                         *)
(* Text is a sequence of one-character strings.  A token is represented by *)
(* the text it decodes to, so that decode is concatenation; the tokenizer  *)
(* merges the pair "a","b" into the single token "ab", which makes         *)
(* encode a real conversion (token counts differ from character counts).   *)
(***************************************************************************)
EXTENDS Integers, Sequences, FiniteSets, TLC

VARIABLES
    \* split_text_into_chunks
    text, max_tokens, paragraphs, para_idx, chunks, chunk_tokens,
    current_chunk, current_token_count, big_paras, s_pc,
    \* parse_page_range
    terms, page_range_str, total_pages, parts, part_idx, pages, page_indices, p_pc,
    \* extract_data_with_openai
    doc, multiple_rows, format_ok, static_tokens, available_tokens, text_chunks,
    chunk_idx, all_data, completions, requests, split_calls, result, outcome, e_pc

split_vars == <<text, max_tokens, paragraphs, para_idx, chunks, chunk_tokens,
                current_chunk, current_token_count, big_paras, s_pc>>
parse_vars == <<terms, page_range_str, total_pages, parts, part_idx, pages,
                page_indices, p_pc>>
extract_vars == <<doc, multiple_rows, format_ok, static_tokens, available_tokens,
                  text_chunks, chunk_idx, all_data, completions, requests,
                  split_calls, result, outcome, e_pc>>
vars == <<split_vars, parse_vars, extract_vars>>

----------------------------------------------------------------------------
\* Bounds of the model

\* longest text handed directly to the splitter
MaxTextLen == 5
\* largest max_tokens handed directly to the splitter
MaxBudget == 3
\* most comma-separated terms of a page range expression
MaxTerms == 2
\* most pages of a document
MaxPages == 4
\* longest document text handed to the extraction loop
MaxDocLen == 3
\* largest available_tokens the extraction loop computes
MaxAvail == 2

----------------------------------------------------------------------------
\* Generic helpers

Min(a, b) == IF a <= b THEN a ELSE b
Max(a, b) == IF a >= b THEN a ELSE b

RECURSIVE Flatten(_)
Flatten(ss) == IF ss = <<>> THEN <<>> ELSE Head(ss) \o Flatten(Tail(ss))

SeqsUpTo(S, n) == UNION {[1..k -> S] : k \in 0..n}

NL == "\n"
SP == " "

\* str.split(sep): the pieces between occurrences of sep; never an empty list
RECURSIVE SplitOn(_, _, _)
SplitOn(s, sep, acc) ==
    IF s = <<>> THEN <<acc>>
    ELSE IF Head(s) = sep THEN <<acc>> \o SplitOn(Tail(s), sep, <<>>)
    ELSE SplitOn(Tail(s), sep, Append(acc, Head(s)))

StrSplit(s, sep) == SplitOn(s, sep, <<>>)

IsSpace(c) == c \in {SP, NL}

\* str.strip(): leading and trailing whitespace removed
RECURSIVE LStrip(_)
LStrip(s) == IF s # <<>> /\ IsSpace(Head(s)) THEN LStrip(Tail(s)) ELSE s

RECURSIVE RStrip(_)
RStrip(s) ==
    IF s # <<>> /\ IsSpace(s[Len(s)]) THEN RStrip(SubSeq(s, 1, Len(s) - 1)) ELSE s

Strip(s) == RStrip(LStrip(s))

----------------------------------------------------------------------------
\* Tokenizer (encoding.encode / encoding.decode)

TextChars == {"a", "b", SP, NL}

\* encode: left to right, the pair a,b becomes one token, any other character
\* is a token of its own
RECURSIVE Encode(_)
Encode(s) ==
    IF s = <<>> THEN <<>>
    ELSE IF Len(s) >= 2 /\ s[1] = "a" /\ s[2] = "b"
         THEN <<"ab">> \o Encode(SubSeq(s, 3, Len(s)))
         ELSE <<s[1]>> \o Encode(Tail(s))

TokenText(t) == IF t = "ab" THEN <<"a", "b">> ELSE <<t>>

\* decode: the concatenation of the tokens' texts
RECURSIVE Decode(_)
Decode(ts) == IF ts = <<>> THEN <<>> ELSE TokenText(Head(ts)) \o Decode(Tail(ts))

\* encoding.encode('\n'), the paragraph separator the splitter appends
SepTokens == Encode(<<NL>>)

----------------------------------------------------------------------------
\* split_text_into_chunks

\* variant: slices one token longer than the budget
RECURSIVE SliceTokensOversize(_, _)
SliceTokensOversize(tokens, max) ==
    IF tokens = <<>> THEN <<>>
    ELSE LET take == Min(Len(tokens), max + 1)
         IN  <<SubSeq(tokens, 1, take)>>
             \o SliceTokensOversize(SubSeq(tokens, take + 1, Len(tokens)), max)

\* the while loop over an oversized paragraph: slices of min(len, max) tokens
RECURSIVE SliceTokens(_, _)
SliceTokens(tokens, max) ==
    IF tokens = <<>> THEN <<>>
    ELSE LET take == Min(Len(tokens), max)
         IN  <<SubSeq(tokens, 1, take)>>
             \o SliceTokens(SubSeq(tokens, take + 1, Len(tokens)), max)

\* variant: the pending buffer is reset without being emitted
FlushedDropsCurrent(bufs, cur) == bufs

\* the buffers emitted so far once a non-empty current buffer is flushed
Flushed(bufs, cur) == IF cur # <<>> THEN Append(bufs, cur) ELSE bufs

DecodeAll(bufs) == [i \in DOMAIN bufs |-> Decode(bufs[i])]

para == paragraphs[para_idx]
para_tokens == Encode(para)
para_token_count == Len(para_tokens)

SplitBegin ==
    /\ s_pc = "start"
    /\ paragraphs' = StrSplit(text, NL)
    /\ para_idx' = 1
    /\ chunks' = <<>>
    /\ chunk_tokens' = <<>>
    /\ current_chunk' = <<>>
    /\ current_token_count' = 0
    /\ big_paras' = <<>>
    /\ s_pc' = "loop"
    /\ UNCHANGED <<text, max_tokens>>
    /\ UNCHANGED <<parse_vars, extract_vars>>

\* the paragraph does not fit and is larger than max_tokens on its own
ParaTooBig ==
    /\ s_pc = "loop" /\ para_idx <= Len(paragraphs)
    /\ current_token_count + para_token_count > max_tokens
    /\ para_token_count > max_tokens
    /\ LET base == Flushed(chunk_tokens, current_chunk)
           bufs == base \o SliceTokens(para_tokens, max_tokens)
       IN  /\ chunk_tokens' = bufs
           /\ chunks' = DecodeAll(bufs)
           /\ big_paras' = Append(big_paras,
                  [tokens |-> para_tokens, pending |-> current_chunk,
                   emitted_before |-> Len(chunk_tokens), emitted_after |-> Len(bufs)])
    /\ current_chunk' = <<>>
    /\ current_token_count' = 0
    /\ para_idx' = para_idx + 1
    /\ UNCHANGED <<text, max_tokens, paragraphs, s_pc>>
    /\ UNCHANGED <<parse_vars, extract_vars>>

\* the paragraph does not fit in the current buffer but fits in an empty one
ParaStartsChunk ==
    /\ s_pc = "loop" /\ para_idx <= Len(paragraphs)
    /\ current_token_count + para_token_count > max_tokens
    /\ ~(para_token_count > max_tokens)
    /\ chunk_tokens' = Flushed(chunk_tokens, current_chunk)
    /\ chunks' = DecodeAll(chunk_tokens')
    /\ current_chunk' = para_tokens
    /\ current_token_count' = para_token_count
    /\ para_idx' = para_idx + 1
    /\ UNCHANGED <<text, max_tokens, paragraphs, big_paras, s_pc>>
    /\ UNCHANGED <<parse_vars, extract_vars>>

\* the paragraph fits: it is appended with a separator token
ParaAppended ==
    /\ s_pc = "loop" /\ para_idx <= Len(paragraphs)
    /\ ~(current_token_count + para_token_count > max_tokens)
    /\ current_chunk' = current_chunk \o para_tokens \o SepTokens
    /\ current_token_count' = current_token_count + para_token_count + 1
    /\ para_idx' = para_idx + 1
    /\ UNCHANGED <<text, max_tokens, paragraphs, chunks, chunk_tokens, big_paras, s_pc>>
    /\ UNCHANGED <<parse_vars, extract_vars>>

\* after the loop: the final flush and the return
SplitReturn ==
    /\ s_pc = "loop" /\ para_idx > Len(paragraphs)
    /\ chunk_tokens' = Flushed(chunk_tokens, current_chunk)
    /\ chunks' = DecodeAll(chunk_tokens')
    /\ s_pc' = "done"
    /\ UNCHANGED <<text, max_tokens, paragraphs, para_idx, current_chunk,
                   current_token_count, big_paras>>
    /\ UNCHANGED <<parse_vars, extract_vars>>

SplitStep == SplitBegin \/ ParaTooBig \/ ParaStartsChunk \/ ParaAppended \/ SplitReturn

----------------------------------------------------------------------------
\* parse_page_range

DigitChars == <<"0", "1", "2", "3", "4", "5", "6", "7", "8", "9">>

IsDigit(c) == \E i \in DOMAIN DigitChars : DigitChars[i] = c

DigitVal(c) == (CHOOSE i \in DOMAIN DigitChars : DigitChars[i] = c) - 1

RECURSIVE DecimalVal(_)
DecimalVal(s) ==
    IF s = <<>> THEN 0
    ELSE DecimalVal(SubSeq(s, 1, Len(s) - 1)) * Len(DigitChars) + DigitVal(s[Len(s)])

\* int(s) succeeds: surrounding whitespace is ignored, the rest is a non-empty
\* run of decimal digits (no term of the model carries a sign or an underscore)
IntParses(s) ==
    LET t == Strip(s) IN t # <<>> /\ \A i \in DOMAIN t : IsDigit(t[i])

IntValue(s) == DecimalVal(Strip(s))

Contains(s, c) == \E i \in DOMAIN s : s[i] = c

\* range(lo, hi) as a list
RangeList(lo, hi) == IF hi > lo THEN [i \in 1..(hi - lo) |-> lo + i - 1] ELSE <<>>

SeqToSet(s) == {s[i] : i \in DOMAIN s}

SetMin(S) == CHOOSE x \in S : \A y \in S : x <= y

\* sorted(list(set(pages)))
RECURSIVE SortedList(_)
SortedList(S) ==
    IF S = {} THEN <<>> ELSE <<SetMin(S)>> \o SortedList(S \ {SetMin(S)})

part == parts[part_idx]
range_pieces == StrSplit(part, "-")

\* start, end = map(int, part.split('-')) raises nothing
RangeParses(p) ==
    LET ps == StrSplit(p, "-")
    IN  Len(ps) = 2 /\ IntParses(ps[1]) /\ IntParses(ps[2])

\* variant: start is not floored to 1
RangePagesNoFloor(p, total) ==
    LET ps == StrSplit(p, "-")
        start == IntValue(ps[1])
        end == Min(total, IntValue(ps[2]))
    IN  RangeList(start - 1, end)

\* the indices a start-end term adds to pages
RangePages(p, total) ==
    LET ps == StrSplit(p, "-")
        start == Max(1, IntValue(ps[1]))
        end == Min(total, IntValue(ps[2]))
    IN  RangeList(start - 1, end)

\* the indices a single-number term adds to pages
SinglePages(p, total) ==
    LET page == IntValue(p)
    IN  IF 1 <= page /\ page <= total THEN <<page - 1>> ELSE <<>>

\* a blank expression selects every page
ParseBlank ==
    /\ p_pc = "start"
    /\ Strip(page_range_str) = <<>>
    /\ page_indices' = RangeList(0, total_pages)
    /\ p_pc' = "done"
    /\ UNCHANGED <<terms, page_range_str, total_pages, parts, part_idx, pages>>
    /\ UNCHANGED <<split_vars, extract_vars>>

ParseBegin ==
    /\ p_pc = "start"
    /\ Strip(page_range_str) # <<>>
    /\ pages' = <<>>
    /\ parts' = StrSplit(page_range_str, ",")
    /\ part_idx' = 1
    /\ p_pc' = "loop"
    /\ UNCHANGED <<terms, page_range_str, total_pages, page_indices>>
    /\ UNCHANGED <<split_vars, extract_vars>>

PartRange ==
    /\ p_pc = "loop" /\ part_idx <= Len(parts)
    /\ Contains(part, "-")
    /\ RangeParses(part)
    /\ pages' = pages \o RangePages(part, total_pages)
    /\ part_idx' = part_idx + 1
    /\ UNCHANGED <<terms, page_range_str, total_pages, parts, page_indices, p_pc>>
    /\ UNCHANGED <<split_vars, extract_vars>>

PartRangeInvalid ==
    /\ p_pc = "loop" /\ part_idx <= Len(parts)
    /\ Contains(part, "-")
    /\ ~RangeParses(part)
    /\ page_indices' = <<>>
    /\ p_pc' = "done"
    /\ UNCHANGED <<terms, page_range_str, total_pages, parts, part_idx, pages>>
    /\ UNCHANGED <<split_vars, extract_vars>>

PartSingle ==
    /\ p_pc = "loop" /\ part_idx <= Len(parts)
    /\ ~Contains(part, "-")
    /\ IntParses(part)
    /\ pages' = pages \o SinglePages(part, total_pages)
    /\ part_idx' = part_idx + 1
    /\ UNCHANGED <<terms, page_range_str, total_pages, parts, page_indices, p_pc>>
    /\ UNCHANGED <<split_vars, extract_vars>>

\* variant: a term that is no number is skipped and the loop goes on
PartSingleInvalidSkips ==
    /\ p_pc = "loop" /\ part_idx <= Len(parts)
    /\ ~Contains(part, "-")
    /\ ~IntParses(part)
    /\ part_idx' = part_idx + 1
    /\ UNCHANGED <<terms, page_range_str, total_pages, parts, pages, page_indices, p_pc>>
    /\ UNCHANGED <<split_vars, extract_vars>>

PartSingleInvalid ==
    /\ p_pc = "loop" /\ part_idx <= Len(parts)
    /\ ~Contains(part, "-")
    /\ ~IntParses(part)
    /\ page_indices' = <<>>
    /\ p_pc' = "done"
    /\ UNCHANGED <<terms, page_range_str, total_pages, parts, part_idx, pages>>
    /\ UNCHANGED <<split_vars, extract_vars>>

ParseReturn ==
    /\ p_pc = "loop" /\ part_idx > Len(parts)
    /\ page_indices' = SortedList(SeqToSet(pages))
    /\ p_pc' = "done"
    /\ UNCHANGED <<terms, page_range_str, total_pages, parts, part_idx, pages>>
    /\ UNCHANGED <<split_vars, extract_vars>>

ParseStep ==
    \/ ParseBlank \/ ParseBegin \/ PartRange \/ PartRangeInvalid
    \/ PartSingle \/ PartSingleInvalid \/ ParseReturn

----------------------------------------------------------------------------
\* extract_data_with_openai

model_max_tokens == 128000
reserved_response_tokens == 2000

\* json_str.replace("\n", " ")
FlattenNewlines(s) == [i \in DOMAIN s |-> IF s[i] = NL THEN SP ELSE s[i]]

\* index of the first occurrence of c in s at or after position from; 0 if none
FirstIndex(s, c, from) ==
    IF \E i \in from..Len(s) : s[i] = c
    THEN CHOOSE i \in from..Len(s) : s[i] = c /\ \A j \in from..(i - 1) : s[j] # c
    ELSE 0

\* re.findall(r'\{.*?}', s): leftmost, non-overlapping, each match running from
\* an opening brace to the first closing brace after it
RECURSIVE FindAll(_)
FindAll(s) ==
    LET open == FirstIndex(s, "{", 1)
        close == IF open = 0 THEN 0 ELSE FirstIndex(s, "}", open + 1)
    IN  IF open = 0 \/ close = 0 THEN <<>>
        ELSE <<SubSeq(s, open, close)>> \o FindAll(SubSeq(s, close + 1, Len(s)))

\* the characters standing for one well-formed member, "name": value
MemberChars == {"a", "b"}

\* json.loads(x) succeeds on a brace-delimited candidate: the body is empty or
\* one member, whitespace around it allowed
JsonParses(x) ==
    LET body == Strip(SubSeq(x, 2, Len(x) - 1))
    IN  body = <<>> \/ (Len(body) = 1 /\ body[1] \in MemberChars)

\* the parsed dict, represented by its members
JsonLoads(x) == Strip(SubSeq(x, 2, Len(x) - 1))

\* the list data built from one response (the for loop over re.findall)
ParseObjects(json_str) ==
    LET found == SelectSeq(FindAll(FlattenNewlines(json_str)), JsonParses)
    IN  [i \in DOMAIN found |-> JsonLoads(found[i])]

\* the responses the completion capability may return, each with the objects
\* a reader of the response text finds in it
Responses ==
    { [content |-> <<"x">>, objects |-> <<>>],
      [content |-> <<"x", "{", "a", "}", "x">>, objects |-> << <<"a">> >>],
      [content |-> <<"{", "a", "}", "{", "b", "}">>, objects |-> << <<"a">>, <<"b">> >>],
      [content |-> <<"{", "x", "}", "{", NL, "b", "}">>, objects |-> << <<"b">> >>],
      [content |-> <<"{", "a", "{", "b", "}">>, objects |-> <<>>] }

\* if not text.strip(): return []
ExtractEmptyText ==
    /\ e_pc = "start"
    /\ Strip(doc) = <<>>
    /\ result' = <<>>
    /\ outcome' = "EmptyText"
    /\ e_pc' = "done"
    /\ UNCHANGED <<doc, multiple_rows, format_ok, static_tokens, available_tokens,
                   text_chunks, chunk_idx, all_data, completions, requests, split_calls>>
    /\ UNCHANGED <<split_vars, parse_vars>>

\* prompt_template.format(text="") raises (a stray brace in the columns or the
\* instructions): the outer handler reports it and returns []
ExtractFormatError ==
    /\ e_pc = "start"
    /\ Strip(doc) # <<>>
    /\ ~format_ok
    /\ result' = <<>>
    /\ outcome' = "Error"
    /\ e_pc' = "done"
    /\ UNCHANGED <<doc, multiple_rows, format_ok, static_tokens, available_tokens,
                   text_chunks, chunk_idx, all_data, completions, requests, split_calls>>
    /\ UNCHANGED <<split_vars, parse_vars>>

ExtractBudget ==
    /\ e_pc = "start"
    /\ Strip(doc) # <<>>
    /\ format_ok
    /\ available_tokens' = model_max_tokens - static_tokens - reserved_response_tokens
    /\ e_pc' = "budget"
    /\ UNCHANGED <<doc, multiple_rows, format_ok, static_tokens, text_chunks, chunk_idx,
                   all_data, completions, requests, split_calls, result, outcome>>
    /\ UNCHANGED <<split_vars, parse_vars>>

\* variant: a budget of exactly zero is let through
PromptTooLongStrict(available) == available < 0

\* if available_tokens <= 0
PromptTooLong(available) == available <= 0

ExtractPromptTooLong ==
    /\ e_pc = "budget"
    /\ PromptTooLong(available_tokens)
    /\ result' = <<>>
    /\ outcome' = "PromptTooLong"
    /\ e_pc' = "done"
    /\ UNCHANGED <<doc, multiple_rows, format_ok, static_tokens, available_tokens,
                   text_chunks, chunk_idx, all_data, completions, requests, split_calls>>
    /\ UNCHANGED <<split_vars, parse_vars>>

\* text_chunks = split_text_into_chunks(text, available_tokens, encoding): the call
ExtractCallSplit ==
    /\ e_pc = "budget"
    /\ ~PromptTooLong(available_tokens)
    /\ text' = doc
    /\ max_tokens' = available_tokens
    /\ s_pc' = "start"
    /\ split_calls' = split_calls + 1
    /\ e_pc' = "split"
    /\ UNCHANGED <<paragraphs, para_idx, chunks, chunk_tokens, current_chunk,
                   current_token_count, big_paras>>
    /\ UNCHANGED <<doc, multiple_rows, format_ok, static_tokens, available_tokens,
                   text_chunks, chunk_idx, all_data, completions, requests, result, outcome>>
    /\ UNCHANGED parse_vars

\* the splitter has returned: if not text_chunks: return []; all_data = []
ExtractGotChunks ==
    /\ e_pc = "split"
    /\ s_pc = "done"
    /\ text_chunks' = chunks
    /\ s_pc' = "idle"
    /\ chunk_idx' = 1
    /\ all_data' = <<>>
    /\ IF chunks = <<>>
       THEN result' = <<>> /\ outcome' = "NoChunks" /\ e_pc' = "done"
       ELSE e_pc' = "loop" /\ UNCHANGED <<result, outcome>>
    /\ UNCHANGED <<text, max_tokens, paragraphs, para_idx, chunks, chunk_tokens,
                   current_chunk, current_token_count, big_paras>>
    /\ UNCHANGED <<doc, multiple_rows, format_ok, static_tokens, available_tokens,
                   completions, requests, split_calls>>
    /\ UNCHANGED parse_vars

\* client.chat.completions.create(...) is called for the current chunk
ChunkRequest ==
    /\ e_pc = "loop" /\ chunk_idx <= Len(text_chunks)
    /\ requests' = Append(requests, chunk_idx)
    /\ e_pc' = "await"
    /\ UNCHANGED <<doc, multiple_rows, format_ok, static_tokens, available_tokens,
                   text_chunks, chunk_idx, all_data, completions, split_calls,
                   result, outcome>>
    /\ UNCHANGED <<split_vars, parse_vars>>

\* the request returns a response, which is parsed and added to all_data
ChunkCompleted ==
    /\ e_pc = "await"
    /\ \E r \in Responses :
          /\ completions' = Append(completions, [ok |-> TRUE, objects |-> r.objects])
          /\ all_data' = all_data \o ParseObjects(r.content)
    /\ chunk_idx' = chunk_idx + 1
    /\ e_pc' = "loop"
    /\ UNCHANGED <<doc, multiple_rows, format_ok, static_tokens, available_tokens,
                   text_chunks, requests, split_calls, result, outcome>>
    /\ UNCHANGED <<split_vars, parse_vars>>

\* variant: a failed request ends the run in the outer handler
ChunkFailedAborts ==
    /\ e_pc = "await"
    /\ completions' = Append(completions, [ok |-> FALSE, objects |-> <<>>])
    /\ result' = <<>>
    /\ outcome' = "Error"
    /\ e_pc' = "done"
    /\ UNCHANGED <<doc, multiple_rows, format_ok, static_tokens, available_tokens,
                   text_chunks, chunk_idx, all_data, requests, split_calls>>
    /\ UNCHANGED <<split_vars, parse_vars>>

\* variant: a failed request is issued again for the same chunk
ChunkFailedRetries ==
    /\ e_pc = "await"
    /\ completions' = Append(completions, [ok |-> FALSE, objects |-> <<>>])
    /\ e_pc' = "loop"
    /\ UNCHANGED <<doc, multiple_rows, format_ok, static_tokens, available_tokens,
                   text_chunks, chunk_idx, all_data, requests, split_calls,
                   result, outcome>>
    /\ UNCHANGED <<split_vars, parse_vars>>

\* the request raises: the error is reported and the loop continues
ChunkFailed ==
    /\ e_pc = "await"
    /\ completions' = Append(completions, [ok |-> FALSE, objects |-> <<>>])
    /\ chunk_idx' = chunk_idx + 1
    /\ e_pc' = "loop"
    /\ UNCHANGED <<doc, multiple_rows, format_ok, static_tokens, available_tokens,
                   text_chunks, all_data, requests, split_calls, result, outcome>>
    /\ UNCHANGED <<split_vars, parse_vars>>

\* variant: single-row mode keeps the last record
ReturnedLast(data, multiple) ==
    IF ~multiple /\ data # <<>> THEN <<data[Len(data)]>> ELSE data

\* what the function returns once the loop is over
Returned(data, multiple) ==
    IF ~multiple /\ data # <<>> THEN <<data[1]>> ELSE data

ExtractReturn ==
    /\ e_pc = "loop" /\ chunk_idx > Len(text_chunks)
    /\ result' = Returned(all_data, multiple_rows)
    /\ outcome' = "Returned"
    /\ e_pc' = "done"
    /\ UNCHANGED <<doc, multiple_rows, format_ok, static_tokens, available_tokens,
                   text_chunks, chunk_idx, all_data, completions, requests, split_calls>>
    /\ UNCHANGED <<split_vars, parse_vars>>

ExtractStep ==
    \/ ExtractEmptyText \/ ExtractFormatError \/ ExtractBudget \/ ExtractPromptTooLong
    \/ ExtractCallSplit \/ ExtractGotChunks \/ ChunkRequest \/ ChunkCompleted
    \/ ChunkFailed
    \/ ExtractReturn

----------------------------------------------------------------------------
\* Specifications

SplitIdle ==
    /\ text = <<>> /\ max_tokens = 0 /\ paragraphs = <<>> /\ para_idx = 0
    /\ chunks = <<>> /\ chunk_tokens = <<>> /\ current_chunk = <<>>
    /\ current_token_count = 0 /\ big_paras = <<>> /\ s_pc = "idle"

ParseIdle ==
    /\ terms = <<>> /\ page_range_str = <<>> /\ total_pages = 0 /\ parts = <<>>
    /\ part_idx = 0 /\ pages = <<>> /\ page_indices = <<>> /\ p_pc = "idle"

ExtractIdle ==
    /\ doc = <<>> /\ multiple_rows = FALSE /\ format_ok = TRUE /\ static_tokens = 0
    /\ available_tokens = 0 /\ text_chunks = <<>> /\ chunk_idx = 0 /\ all_data = <<>>
    /\ completions = <<>> /\ requests = <<>> /\ split_calls = 0 /\ result = <<>>
    /\ outcome = "none" /\ e_pc = "idle"

\* split_text_into_chunks called on any text with any max_tokens >= 1
InitSplit ==
    /\ text \in SeqsUpTo(TextChars, MaxTextLen)
    /\ max_tokens \in 1..MaxBudget
    /\ paragraphs = <<>> /\ para_idx = 0
    /\ chunks = <<>> /\ chunk_tokens = <<>> /\ current_chunk = <<>>
    /\ current_token_count = 0 /\ big_paras = <<>> /\ s_pc = "start"
    /\ ParseIdle /\ ExtractIdle

NextSplit == SplitStep

SpecSplit == InitSplit /\ [][NextSplit]_vars

\* the terms page range expressions are built from, each with its meaning: a
\* single number, a start-end range, or a term the parser rejects (a signed
\* number is read as a range with an empty start, and rejected)
Term(s, k, a, b) == [str |-> s, kind |-> k, a |-> a, b |-> b]

TermPool ==
    { Term(<<"3">>, "single", 3, 3),
      Term(<<SP, "1">>, "single", 1, 1),
      Term(<<"0">>, "single", 0, 0),
      Term(<<"1", "2">>, "single", 12, 12),
      Term(<<"1", "-", "3">>, "range", 1, 3),
      Term(<<"3", "-", "1">>, "range", 3, 1),
      Term(<<"0", "-", "2">>, "range", 0, 2),
      Term(<<"2", SP, "-", SP, "9">>, "range", 2, 9),
      Term(<<"x">>, "bad", 0, 0),
      Term(<<"1", "-">>, "bad", 0, 0),
      Term(<<"1", "-", "2", "-", "3">>, "bad", 0, 0),
      Term(<<"2", "-", "x">>, "bad", 0, 0),
      Term(<<"-", "1">>, "bad", 0, 0),
      Term(<<>>, "blank", 0, 0),
      Term(<<SP>>, "blank", 0, 0) }

\* ",".join(strs)
RECURSIVE JoinComma(_)
JoinComma(ts) ==
    IF ts = <<>> THEN <<>>
    ELSE IF Len(ts) = 1 THEN ts[1].str
    ELSE ts[1].str \o <<",">> \o JoinComma(Tail(ts))

InitParse ==
    /\ terms \in UNION {[1..k -> TermPool] : k \in 1..MaxTerms}
    /\ page_range_str = JoinComma(terms)
    /\ total_pages \in 0..MaxPages
    /\ parts = <<>> /\ part_idx = 0 /\ pages = <<>> /\ page_indices = <<>>
    /\ p_pc = "start"
    /\ SplitIdle /\ ExtractIdle

NextParse == ParseStep

SpecParse == InitParse /\ [][NextParse]_vars

\* the token counts of the rendered static prompt: available_tokens from -1 up
StaticTokenCounts ==
    {model_max_tokens - reserved_response_tokens - k : k \in (-1)..MaxAvail}

InitExtract ==
    /\ doc \in SeqsUpTo(TextChars, MaxDocLen)
    /\ multiple_rows \in BOOLEAN
    /\ format_ok \in BOOLEAN
    /\ static_tokens \in StaticTokenCounts
    /\ available_tokens = 0 /\ text_chunks = <<>> /\ chunk_idx = 0 /\ all_data = <<>>
    /\ completions = <<>> /\ requests = <<>> /\ split_calls = 0 /\ result = <<>>
    /\ outcome = "none" /\ e_pc = "start"
    /\ SplitIdle /\ ParseIdle

NextExtract == ExtractStep \/ SplitStep

SpecExtract == InitExtract /\ [][NextExtract]_vars

Init == InitSplit \/ InitParse \/ InitExtract
Next == NextSplit \/ NextParse \/ NextExtract
Spec == Init /\ [][Next]_vars

----------------------------------------------------------------------------
\* Properties of split_text_into_chunks (checked under SpecSplit)

\* C1: every chunk emitted by split_text_into_chunks holds at most max_tokens
\* tokens, counting every token placed in its buffer (separators included).
C1_ChunkWithinBudget ==
    \A i \in DOMAIN chunk_tokens : Len(chunk_tokens[i]) <= max_tokens

AllWhitespace(s) == \A i \in DOMAIN s : IsSpace(s[i])

\* C2: split_text_into_chunks returns zero chunks when the text is empty or
\* consists only of empty or whitespace paragraphs.
C2_BlankTextNoChunks ==
    (s_pc = "done" /\ AllWhitespace(text)) => chunks = <<>>

IsSeparator(t) == t \in SeqToSet(SepTokens)
NotSeparator(t) == ~IsSeparator(t)

\* the paragraphs of the input, cut at the line breaks of the text itself
ParagraphBounds(s) ==
    LET breaks == {i \in DOMAIN s : s[i] = NL}
        starts == {1} \cup {i + 1 : i \in breaks}
    IN  {<<b, e>> \in starts \X (0..Len(s)) :
            /\ e >= b - 1
            /\ \A i \in b..e : i \notin breaks
            /\ (e = Len(s) \/ (e + 1) \in breaks)}

RECURSIVE ParagraphTokensFrom(_, _)
ParagraphTokensFrom(s, b) ==
    IF b > Len(s) + 1 THEN <<>>
    ELSE LET e == CHOOSE e \in (b - 1)..Len(s) : <<b, e>> \in ParagraphBounds(s)
         IN  Encode(SubSeq(s, b, e)) \o ParagraphTokensFrom(s, e + 2)

\* C3: the tokens of all returned chunks, in order, with the appended
\* separator tokens removed, are exactly the tokens of the paragraphs of the
\* input in input order: nothing lost, duplicated, reordered or overlapping.
C3_ChunksReconstructInput ==
    s_pc = "done" =>
        SelectSeq(Flatten(chunk_tokens), NotSeparator) = ParagraphTokensFrom(text, 1)

C3_Witness ==
    /\ s_pc = "done"
    /\ Len(chunk_tokens) >= 3
    /\ big_paras # <<>>
    /\ \E i \in DOMAIN chunk_tokens : \E j \in DOMAIN chunk_tokens[i] :
          IsSeparator(chunk_tokens[i][j])
    /\ \E i \in DOMAIN chunk_tokens : \E j \in DOMAIN chunk_tokens[i] :
          chunk_tokens[i][j] = "ab"

CeilDiv(n, d) == (n + d - 1) \div d

\* C9: a paragraph of len > max_tokens tokens is emitted, after the pending
\* buffer (if any) is flushed, as exactly ceil(len / max_tokens) chunks that are
\* consecutive slices of its tokens, each of max_tokens tokens except possibly
\* the last, which is shorter and not empty.
C9_BigParagraphSliced ==
    \A k \in DOMAIN big_paras :
        LET bp == big_paras[k]
            n == Len(bp.tokens)
            first == bp.emitted_before + (IF bp.pending # <<>> THEN 2 ELSE 1)
            count == bp.emitted_after - first + 1
        IN  /\ n > max_tokens
            /\ bp.emitted_after <= Len(chunk_tokens)
            /\ bp.pending # <<>> => chunk_tokens[bp.emitted_before + 1] = bp.pending
            /\ count = CeilDiv(n, max_tokens)
            /\ \A j \in 1..count :
                  /\ chunk_tokens[first + j - 1] =
                        SubSeq(bp.tokens, (j - 1) * max_tokens + 1, Min(j * max_tokens, n))
                  /\ j < count => Len(chunk_tokens[first + j - 1]) = max_tokens
                  /\ Len(chunk_tokens[first + j - 1]) \in 1..max_tokens

C9_Witness ==
    /\ s_pc = "done"
    /\ \E k \in DOMAIN big_paras :
          /\ big_paras[k].pending # <<>>
          /\ big_paras[k].emitted_after - big_paras[k].emitted_before = 3
          /\ Len(big_paras[k].tokens) % max_tokens # 0
          /\ Len(chunk_tokens) > big_paras[k].emitted_after

----------------------------------------------------------------------------
\* Properties of parse_page_range (checked under SpecParse)

BlankExpression == Len(terms) = 1 /\ terms[1].kind = "blank"

TermParses(t) == t.kind \in {"single", "range"}

\* the 1-based pages a term covers in a document of total pages
Covers(t, p, total) ==
    /\ 1 <= p /\ p <= total
    /\ \/ t.kind = "single" /\ p = t.a
       \/ t.kind = "range" /\ Max(1, t.a) <= p /\ p <= Min(total, t.b)

CoveredPages ==
    IF BlankExpression THEN 1..total_pages
    ELSE {p \in 1..total_pages : \E i \in DOMAIN terms : Covers(terms[i], p, total_pages)}

\* C4: for a blank expression, or one whose terms all parse, parse_page_range
\* returns the sorted, duplicate-free list of the indices p-1 of exactly the
\* pages p in [1, total_pages] that some term covers (all pages when blank);
\* the result is a subset of [0, total_pages).
C4_PagesAreCoveredSet ==
    (p_pc = "done" /\ (BlankExpression \/ \A i \in DOMAIN terms : TermParses(terms[i]))) =>
        /\ SeqToSet(page_indices) = {p - 1 : p \in CoveredPages}
        /\ \A i, j \in DOMAIN page_indices : i < j => page_indices[i] < page_indices[j]
        /\ SeqToSet(page_indices) \subseteq 0..(total_pages - 1)

C4_Witness ==
    /\ p_pc = "done"
    /\ Len(terms) = 2
    /\ terms[1].kind = "range" /\ terms[2].kind = "range"
    /\ terms[1].a = 1 /\ terms[2].a = 0
    /\ Len(pages) = 5
    /\ pages[3] > pages[4]
    /\ page_indices = <<0, 1, 2>>

\* C5: if any term of a non-blank expression fails to parse, parse_page_range
\* returns the empty list, whatever the other terms and wherever the bad term.
C5_BadTermEmptiesResult ==
    (p_pc = "done" /\ ~BlankExpression /\ \E i \in DOMAIN terms : ~TermParses(terms[i])) =>
        page_indices = <<>>

C5_Witness ==
    /\ p_pc = "done"
    /\ Len(terms) = 2
    /\ TermParses(terms[1]) /\ ~TermParses(terms[2])
    /\ pages # <<>>
    /\ page_indices = <<>>

----------------------------------------------------------------------------
\* Properties of extract_data_with_openai (checked under SpecExtract)

\* the objects of the chunks whose request succeeded, in chunk order
ExpectedData ==
    Flatten([i \in DOMAIN completions |->
                IF completions[i].ok THEN completions[i].objects ELSE <<>>])

\* C6: with multiple_rows false at most one record is returned, and when some
\* chunk yielded a parsed object the record is the first object of the first
\* chunk that yielded any.
C6_SingleRowFirstObject ==
    (e_pc = "done" /\ ~multiple_rows) =>
        /\ Len(result) <= 1
        /\ \A i \in DOMAIN completions :
              (/\ completions[i].ok /\ completions[i].objects # <<>>
               /\ \A j \in 1..(i - 1) : ~completions[j].ok \/ completions[j].objects = <<>>)
              => result = <<completions[i].objects[1]>>

C6_Witness ==
    /\ e_pc = "done" /\ ~multiple_rows
    /\ Len(completions) = 3
    /\ completions[1].ok /\ completions[1].objects = <<>>
    /\ Len(completions[2].objects) = 2
    /\ completions[3].objects # <<>>
    /\ result = <<completions[2].objects[1]>>
    /\ completions[2].objects[1] # completions[3].objects[1]

\* C7: a chunk whose request fails contributes no record and does not stop the
\* loop: the accumulated list is always the concatenation, in chunk order, of
\* the objects of the chunks whose request succeeded, every chunk is processed,
\* and with multiple_rows true that list is what is returned.
C7_FailedChunkSkipped ==
    /\ e_pc \in {"loop", "await", "done"} => all_data = ExpectedData
    /\ (e_pc = "done" /\ text_chunks # <<>>) =>
          /\ outcome = "Returned"
          /\ Len(completions) = Len(text_chunks)
          /\ multiple_rows => result = ExpectedData

C7_Witness ==
    /\ e_pc = "done" /\ multiple_rows
    /\ Len(completions) = 3
    /\ completions[1].ok /\ completions[1].objects # <<>>
    /\ ~completions[2].ok
    /\ completions[3].ok /\ Len(completions[3].objects) = 2
    /\ Len(result) = Len(completions[1].objects) + 2

\* available_tokens has been assigned (line 135 has run)
BudgetComputed ==
    \/ e_pc \in {"budget", "split", "loop", "await"}
    \/ e_pc = "done" /\ outcome \in {"PromptTooLong", "NoChunks", "Returned"}

\* C8: when the computed available_tokens is <= 0 the run ends in the
\* prompt-too-long outcome with no records, and neither the splitter nor any
\* completion request is ever executed in the run.
C8_PromptTooLongStopsRun ==
    (BudgetComputed /\ available_tokens <= 0) =>
        /\ split_calls = 0 /\ s_pc = "idle" /\ chunks = <<>>
        /\ requests = <<>> /\ completions = <<>>
        /\ e_pc \in {"budget", "done"}
        /\ e_pc = "done" => (outcome = "PromptTooLong" /\ result = <<>>)

C8_Witness ==
    /\ e_pc = "done"
    /\ outcome = "PromptTooLong"
    /\ available_tokens = 0
    /\ Strip(doc) # <<>>

\* C10: one request per chunk, in split order, each only after the previous
\* one completed or failed, and none retried: the number of requests equals
\* the number of chunks for every failure pattern.
C10_OneRequestPerChunk ==
    /\ \A i \in DOMAIN requests : requests[i] = i
    /\ Len(requests) <= Len(text_chunks)
    /\ Len(requests) = Len(completions) + (IF e_pc = "await" THEN 1 ELSE 0)
    /\ (e_pc = "done" /\ outcome = "Returned") => Len(requests) = Len(text_chunks)

C10_Witness ==
    /\ e_pc = "done" /\ outcome = "Returned"
    /\ Len(requests) = 3
    /\ ~completions[1].ok /\ ~completions[2].ok /\ completions[3].ok

====
